---- MODULE Spec2Model ----
(***************************************************************************)
(* A model of the Island's AuthenticationFacade                            *)
(* (monkey_island/cc/services/authentication_service/                      *)
(* authentication_facade.py).                                              *)
(*                                                                         *)
(* Two groups of operations are modelled.                                  *)
(*  - OTP generation and authorization.  authorize_otp is run by several   *)
(*    request threads; each statement of its body that touches the lock,   *)
(*    the OTP repository or the monotonic clock is one step.  The clock    *)
(*    advances on its own between any two steps.                           *)
(*  - The user directory and the refresh tokens: create_user,              *)
(*    generate_refresh_token, revoke_all_tokens_for_user, remove_user and  *)
(*    generate_new_token_pair, issued by one caller at a time, each call   *)
(*    to a collaborator being one step.                                    *)
(*                                                                         *)
(* The unit of time is one minute, so OTP_EXPIRATION_TIME (2 * 60          *)
(* seconds) is 2.                                                          *)
(***************************************************************************)
EXTENDS Integers, FiniteSets, Sequences, TLC

\* ------------------------------------------------------------ bounds
NumThreads == 2
NumOTPs == 1
MaxTime == 3
MaxCalls == 2
NumUsers == 2
MaxUniquifiers == 5
NumPasswords == 2
MaxResets == 2
MaxQueries == 3
MaxVersionLen == 3

\* ------------------------------------------------- program constants
OTP_EXPIRATION_TIME == 2

Threads == 1..NumThreads
\* OTP values: 1..NumOTPs are the values generate_otp can draw, Unrecognized is a
\* string it never returns.
OTPs == 1..NumOTPs
Unrecognized == 0
Values == OTPs \cup {Unrecognized}
NoThread == 0
NoRecord == [present |-> FALSE]
NoOrd == -1
Usernames == 1..NumUsers
Uniquifiers == 1..MaxUniquifiers
None == 0
NoUser == [present |-> FALSE]
TokenStates == {"valid", "tampered", "expired"}
Passwords == 1..NumPasswords
NoSecret == ""
\* IslandEventTopic.CLEAR_SIMULATION_DATA, IslandEventTopic.RESET_AGENT_CONFIGURATION,
\* topic=IslandEventTopic.SET_ISLAND_MODE with mode=IslandMode.UNSET
ResetEvents == <<"publish CLEAR_SIMULATION_DATA",
                 "publish RESET_AGENT_CONFIGURATION",
                 "publish SET_ISLAND_MODE mode=UNSET">>
PublishOutcomes == {"delivered", "subscriber_failed", "raised"}

VARIABLES
    now,        \* time.monotonic()
    otps,       \* the IOTPRepository: OTP value -> record
    lock,       \* _otp_read_lock: the thread holding it, or NoThread
    pc,         \* per thread: its position in authorize_otp
    arg,        \* per thread: the otp it passed
    used_local, \* per thread: the local otp_is_used
    exc,        \* per thread: the exception in flight, or "none"
    result,     \* per thread: "none", "True", "False", or the exception raised
    gen,        \* the generate_otp call in progress
    \* history, read by the properties only
    ord,        \* per thread: how many lookups of its otp succeeded before its own
    at,         \* per thread: the clock when its call decided
    reads,      \* per OTP: lookups that found the record
    retTrue,    \* per OTP: calls that returned True
    \* the user directory and the refresh tokens
    users,      \* the UserDatastore: username -> user record
    nextUniq,   \* the next value set_uniquifier / create_user draws (a fresh uuid)
    tokens,     \* the uniquifiers refresh tokens have been generated from
    op,         \* the facade call in progress on the directory
    \* history, read by the properties only
    revoked,    \* tokens whose owner's uniquifier was rotated after they were issued
    exchanged,  \* the token generate_new_token_pair exchanged last, or None
    interrupted, \* whether the last revoke_all_tokens_for_all_users failed part-way
    \* the repository encryptor, the event queue and the roles
    enc,        \* the ILockableEncryptor: lock state, key and the secret that opens it
    reg,        \* the registration / login / needs_registration call in progress
    roles,      \* the roles the UserDatastore holds
    \* VersionUpdateService
    newer_version, \* the class attribute VersionUpdateService.newer_version
    ver,        \* the get_newer_version call in progress
    queries     \* history: requests sent to the version server

otpVars == <<now, otps, lock, pc, arg, used_local, exc, result, gen,
             ord, at, reads, retTrue>>

dirVars == <<users, nextUniq, tokens, op, revoked, exchanged, interrupted>>

encVars == <<enc, reg, roles>>

verVars == <<newer_version, ver, queries>>

vars == <<otpVars, dirVars, encVars, verVars>>

\* ----------------------------------------------- the OTP repository
\* IOTPRepository as the facade uses it (the interface is imported, its
\* implementations are not part of the sources at hand).
known(o) == otps[o].present

otp_is_used(o) == otps[o].used

get_expiration(o) == otps[o].expiration

insert_otp(store, o, expiration) ==
    [store EXCEPT ![o] = [present |-> TRUE, expiration |-> expiration, used |-> FALSE]]

set_used(store, o) == [store EXCEPT ![o].used = TRUE]

\* ---------------------------------------------------- _otp_ttl_elapsed
otp_ttl_elapsed_reversed(o) == now < get_expiration(o)

otp_ttl_elapsed_inclusive(o) == get_expiration(o) <= now

otp_ttl_elapsed(o) == get_expiration(o) < now

\* ------------------------------------------------------------- Init
InitOTP ==
    /\ now = 0
    /\ otps = [o \in Values |-> NoRecord]
    /\ lock = NoThread
    /\ pc = [t \in Threads |-> "idle"]
    /\ arg = [t \in Threads |-> Unrecognized]
    /\ used_local = [t \in Threads |-> FALSE]
    /\ exc = [t \in Threads |-> "none"]
    /\ result = [t \in Threads |-> "none"]
    /\ gen = [pc |-> "idle", otp |-> Unrecognized, expiration |-> 0]
    /\ ord = [t \in Threads |-> NoOrd]
    /\ at = [t \in Threads |-> 0]
    /\ reads = [o \in Values |-> 0]
    /\ retTrue = [o \in Values |-> 0]

Idle == [pc |-> "idle", name |-> "none", username |-> None, token |-> None,
         state |-> "valid", parsed |-> None, user |-> None, outcome |-> "none",
         minted |-> FALSE, before |-> <<>>, beforeUniq |-> 0,
         again |-> FALSE, todo |-> {}, done |-> {}, resumed |-> FALSE]

InitDirectory ==
    /\ users = [n \in Usernames |-> NoUser]
    /\ nextUniq = 1
    /\ tokens = {}
    /\ op = Idle
    /\ revoked = {}
    /\ exchanged = None
    /\ interrupted = FALSE

RegIdle == [pc |-> "idle", name |-> "none", username |-> None, password |-> None,
            log |-> <<>>, outcome |-> "none", subscriber_failed |-> FALSE,
            before |-> <<>>]

\* a fresh installation: no key yet, the encryptor locked, no role stored
InitEncryptor ==
    /\ enc = [locked |-> TRUE, key |-> 0, secret |-> NoSecret]
    /\ reg = RegIdle
    /\ roles = {}

\* newer_version = None (the class attribute as the module is loaded)
NoneValue == [kind |-> "None"]

FalseValue == [kind |-> "False"]

StrValue(text) == [kind |-> "str", text |-> text]

VerIdle == [pc |-> "idle", cached |-> NoneValue, reply |-> NoneValue,
            outcome |-> NoneValue, raised |-> "none", caught |-> "none",
            queried |-> FALSE]

InitVersion ==
    /\ newer_version = NoneValue
    /\ ver = VerIdle
    /\ queries = 0

Init == InitOTP /\ InitDirectory /\ InitEncryptor /\ InitVersion

\* ------------------------------------------------------------ clock
Tick ==
    /\ now < MaxTime
    /\ now' = now + 1
    /\ UNCHANGED <<otps, lock, pc, arg, used_local, exc, result, gen,
                   ord, at, reads, retTrue, dirVars, encVars, verVars>>

\* ------------------------------------------------------ generate_otp
\* otp = OTP(secure_generate_random_string(32, ...)): a value no record holds;
\* expiration_time = time.monotonic() + OTP_EXPIRATION_TIME
generate_otp_any_value ==
    /\ gen.pc = "idle"
    /\ \E o \in OTPs :
          gen' = [pc |-> "insert", otp |-> o, expiration |-> now + OTP_EXPIRATION_TIME]
    /\ UNCHANGED <<now, otps, lock, pc, arg, used_local, exc, result,
                   ord, at, reads, retTrue, dirVars, encVars, verVars>>

\* expiration_time = time.monotonic(): the time to live is not added
generate_otp_pick_no_ttl ==
    /\ gen.pc = "idle"
    /\ \E o \in OTPs :
          /\ ~known(o)
          /\ gen' = [pc |-> "insert", otp |-> o, expiration |-> now]
    /\ UNCHANGED <<now, otps, lock, pc, arg, used_local, exc, result,
                   ord, at, reads, retTrue, dirVars, encVars, verVars>>

generate_otp_pick ==
    /\ gen.pc = "idle"
    /\ \E o \in OTPs :
          /\ ~known(o)
          /\ gen' = [pc |-> "insert", otp |-> o, expiration |-> now + OTP_EXPIRATION_TIME]
    /\ UNCHANGED <<now, otps, lock, pc, arg, used_local, exc, result,
                   ord, at, reads, retTrue, dirVars, encVars, verVars>>

\* self._otp_repository.insert_otp(otp, expiration_time); return otp
generate_otp_insert ==
    /\ gen.pc = "insert"
    /\ otps' = insert_otp(otps, gen.otp, gen.expiration)
    /\ gen' = [pc |-> "idle", otp |-> Unrecognized, expiration |-> 0]
    /\ UNCHANGED <<now, lock, pc, arg, used_local, exc, result,
                   ord, at, reads, retTrue, dirVars, encVars, verVars>>

\* ----------------------------------------------------- authorize_otp
\* Calls of authorize_otp(o) that have not looked o up yet.
pending(o) == Cardinality({u \in Threads : pc[u] \in {"lock", "is_used"} /\ arg[u] = o})

\* A request thread calls authorize_otp(o).
authorize_otp_call(t, o) ==
    /\ pc[t] = "idle"
    /\ reads[o] + pending(o) < MaxCalls
    /\ pc' = [pc EXCEPT ![t] = "lock"]
    /\ arg' = [arg EXCEPT ![t] = o]
    /\ UNCHANGED <<now, otps, lock, used_local, exc, result, gen,
                   ord, at, reads, retTrue, dirVars, encVars, verVars>>

\* with self._otp_read_lock: entered without waiting for the lock
authorize_otp_acquire_unguarded(t) ==
    /\ pc[t] = "lock"
    /\ lock' = t
    /\ pc' = [pc EXCEPT ![t] = "is_used"]
    /\ UNCHANGED <<now, otps, arg, used_local, exc, result, gen,
                   ord, at, reads, retTrue, dirVars, encVars, verVars>>

\* with self._otp_read_lock:
authorize_otp_acquire(t) ==
    /\ pc[t] = "lock"
    /\ lock = NoThread
    /\ lock' = t
    /\ pc' = [pc EXCEPT ![t] = "is_used"]
    /\ UNCHANGED <<now, otps, arg, used_local, exc, result, gen,
                   ord, at, reads, retTrue, dirVars, encVars, verVars>>

\* the lock covers the lookup only: it is released as soon as the flag is read
authorize_otp_read_used_unlocks(t) ==
    /\ pc[t] = "is_used"
    /\ lock' = NoThread
    /\ IF known(arg[t])
         THEN /\ used_local' = [used_local EXCEPT ![t] = otp_is_used(arg[t])]
              /\ pc' = [pc EXCEPT ![t] = "set_used"]
              /\ ord' = [ord EXCEPT ![t] = reads[arg[t]]]
              /\ reads' = [reads EXCEPT ![arg[t]] = @ + 1]
              /\ exc' = exc
         ELSE /\ exc' = [exc EXCEPT ![t] = "UnknownRecordError"]
              /\ pc' = [pc EXCEPT ![t] = "except"]
              /\ UNCHANGED <<used_local, ord, reads>>
    /\ UNCHANGED <<now, otps, arg, result, gen, at, retTrue, dirVars, encVars, verVars>>

\* otp_is_used = self._otp_repository.otp_is_used(otp)
\* (raises UnknownRecordError when the repository holds no such record)
authorize_otp_read_used(t) ==
    /\ pc[t] = "is_used"
    /\ IF known(arg[t])
         THEN /\ used_local' = [used_local EXCEPT ![t] = otp_is_used(arg[t])]
              /\ pc' = [pc EXCEPT ![t] = "set_used"]
              /\ ord' = [ord EXCEPT ![t] = reads[arg[t]]]
              /\ reads' = [reads EXCEPT ![arg[t]] = @ + 1]
              /\ exc' = exc
         ELSE /\ exc' = [exc EXCEPT ![t] = "UnknownRecordError"]
              /\ pc' = [pc EXCEPT ![t] = "except"]
              /\ UNCHANGED <<used_local, ord, reads>>
    /\ UNCHANGED <<now, otps, lock, arg, result, gen,
                   at, retTrue, dirVars, encVars, verVars>>

\* the record is not marked used
authorize_otp_set_used_skipped(t) ==
    /\ pc[t] = "set_used"
    /\ pc' = [pc EXCEPT ![t] = "decide"]
    /\ UNCHANGED <<now, otps, lock, arg, used_local, exc, result, gen,
                   ord, at, reads, retTrue, dirVars, encVars, verVars>>

\* self._otp_repository.set_used(otp)
authorize_otp_set_used(t) ==
    /\ pc[t] = "set_used"
    /\ otps' = set_used(otps, arg[t])
    /\ pc' = [pc EXCEPT ![t] = "decide"]
    /\ UNCHANGED <<now, lock, arg, used_local, exc, result, gen,
                   ord, at, reads, retTrue, dirVars, encVars, verVars>>

\* if otp_is_used: return False
\* if not self._otp_ttl_elapsed(otp): return True
\* return False
authorize_otp_decide(t) ==
    /\ pc[t] = "decide"
    /\ result' = [result EXCEPT ![t] =
                     IF used_local[t] THEN "False"
                     ELSE IF ~otp_ttl_elapsed(arg[t]) THEN "True"
                     ELSE "False"]
    /\ at' = [at EXCEPT ![t] = now]
    /\ pc' = [pc EXCEPT ![t] = "exit"]
    /\ UNCHANGED <<now, otps, lock, arg, used_local, exc, gen,
                   ord, reads, retTrue, dirVars, encVars, verVars>>

\* no except clause: the exception leaves authorize_otp
authorize_otp_except_missing(t) ==
    /\ pc[t] = "except"
    /\ result' = [result EXCEPT ![t] = exc[t]]
    /\ at' = [at EXCEPT ![t] = now]
    /\ pc' = [pc EXCEPT ![t] = "exit"]
    /\ UNCHANGED <<now, otps, lock, arg, used_local, exc, gen,
                   ord, reads, retTrue, dirVars, encVars, verVars>>

\* except UnknownRecordError: return False
authorize_otp_except(t) ==
    /\ pc[t] = "except"
    /\ result' = [result EXCEPT ![t] =
                     IF exc[t] = "UnknownRecordError" THEN "False" ELSE exc[t]]
    /\ at' = [at EXCEPT ![t] = now]
    /\ pc' = [pc EXCEPT ![t] = "exit"]
    /\ UNCHANGED <<now, otps, lock, arg, used_local, exc, gen,
                   ord, reads, retTrue, dirVars, encVars, verVars>>

\* a repository call (otp_is_used, set_used, get_expiration) fails with an error
\* other than UnknownRecordError
authorize_otp_store_fails(t) ==
    /\ \/ pc[t] \in {"is_used", "set_used"}
       \/ pc[t] = "decide" /\ ~used_local[t]
    /\ exc' = [exc EXCEPT ![t] = "StorageError"]
    /\ pc' = [pc EXCEPT ![t] = "except"]
    /\ UNCHANGED <<now, otps, lock, arg, used_local, result, gen,
                   ord, at, reads, retTrue, dirVars, encVars, verVars>>

\* acquire() / release() without try ... finally: an exception skips the release
authorize_otp_release_leaks(t) ==
    /\ pc[t] = "exit"
    /\ lock' = IF result[t] \in {"True", "False"} THEN NoThread ELSE lock
    /\ pc' = [pc EXCEPT ![t] = "idle"]
    /\ retTrue' = [retTrue EXCEPT ![arg[t]] = IF result[t] = "True" THEN @ + 1 ELSE @]
    /\ arg' = [arg EXCEPT ![t] = Unrecognized]
    /\ used_local' = [used_local EXCEPT ![t] = FALSE]
    /\ exc' = [exc EXCEPT ![t] = "none"]
    /\ result' = [result EXCEPT ![t] = "none"]
    /\ ord' = [ord EXCEPT ![t] = NoOrd]
    /\ at' = [at EXCEPT ![t] = 0]
    /\ UNCHANGED <<now, otps, gen, reads, dirVars, encVars, verVars>>

\* the with block is left: the lock is released and the call returns
authorize_otp_release(t) ==
    /\ pc[t] = "exit"
    /\ lock' = NoThread
    /\ pc' = [pc EXCEPT ![t] = "idle"]
    /\ retTrue' = [retTrue EXCEPT ![arg[t]] = IF result[t] = "True" THEN @ + 1 ELSE @]
    \* the frame of the call is gone
    /\ arg' = [arg EXCEPT ![t] = Unrecognized]
    /\ used_local' = [used_local EXCEPT ![t] = FALSE]
    /\ exc' = [exc EXCEPT ![t] = "none"]
    /\ result' = [result EXCEPT ![t] = "none"]
    /\ ord' = [ord EXCEPT ![t] = NoOrd]
    /\ at' = [at EXCEPT ![t] = 0]
    /\ UNCHANGED <<now, otps, gen, reads, dirVars, encVars, verVars>>

\* ================================================ the user directory
\* UserDatastore.find_user(username=...) / find_user(fs_uniquifier=...)
find_user_by_username(n) == IF users[n].present THEN n ELSE None

find_user_by_uniquifier(q) ==
    IF \E n \in Usernames : users[n].present /\ users[n].fs_uniquifier = q
    THEN CHOOSE n \in Usernames : users[n].present /\ users[n].fs_uniquifier = q
    ELSE None

\* UserDatastore.set_uniquifier(user): the user gets a fresh uniquifier
set_uniquifier(dir, n) == [dir EXCEPT ![n].fs_uniquifier = nextUniq]

\* UserDatastore.delete_user(user)
delete_user(dir, n) == [dir EXCEPT ![n] = NoUser]

\* TokenParser.parse: the uniquifier a token carries, when the token verifies
parse_fails(state) == state # "valid"

\* ------------------------------------------------------- create_user
create_user(n) ==
    /\ op.pc = "idle"
    /\ ~users[n].present
    /\ nextUniq <= MaxUniquifiers
    /\ users' = [users EXCEPT ![n] = [present |-> TRUE, fs_uniquifier |-> nextUniq]]
    /\ nextUniq' = nextUniq + 1
    /\ UNCHANGED <<otpVars, encVars, verVars, exchanged, interrupted, tokens, op, revoked>>

\* -------------------------------------------- generate_refresh_token
generate_refresh_token(n) ==
    /\ op.pc = "idle"
    /\ users[n].present
    /\ tokens' = tokens \cup {users[n].fs_uniquifier}
    /\ UNCHANGED <<otpVars, encVars, verVars, exchanged, interrupted, users, nextUniq, op, revoked>>

\* ---------------------------------------- revoke_all_tokens_for_user
revoke_all_tokens_for_user(n) ==
    /\ op.pc = "idle"
    /\ users[n].present
    /\ nextUniq <= MaxUniquifiers
    /\ users' = set_uniquifier(users, n)
    /\ nextUniq' = nextUniq + 1
    /\ revoked' = revoked \cup ({users[n].fs_uniquifier} \cap tokens)
    /\ UNCHANGED <<otpVars, encVars, verVars, exchanged, interrupted, tokens, op>>

\* ------------------------------------------------------- remove_user
remove_user_call(n) ==
    /\ op.pc = "idle"
    /\ users[n].present => nextUniq <= MaxUniquifiers
    /\ op' = [Idle EXCEPT !.pc = "rm_find", !.name = "remove_user", !.username = n,
                          !.before = users, !.beforeUniq = nextUniq]
    /\ UNCHANGED <<otpVars, encVars, verVars, exchanged, interrupted, users, nextUniq, tokens, revoked>>

\* user = find_user(username=username), used without the test for None
remove_user_find_unchecked ==
    /\ op.pc = "rm_find"
    /\ LET user == find_user_by_username(op.username) IN
          op' = IF user # None
                THEN [op EXCEPT !.pc = "rm_revoke", !.user = user]
                ELSE [op EXCEPT !.pc = "return", !.outcome = "AttributeError"]
    /\ UNCHANGED <<otpVars, encVars, verVars, exchanged, interrupted, users, nextUniq, tokens, revoked>>

\* user = self._datastore.find_user(username=username); if user is not None:
remove_user_find ==
    /\ op.pc = "rm_find"
    /\ LET user == find_user_by_username(op.username) IN
          op' = IF user # None
                THEN [op EXCEPT !.pc = "rm_revoke", !.user = user]
                ELSE [op EXCEPT !.pc = "return", !.outcome = "None"]
    /\ UNCHANGED <<otpVars, encVars, verVars, exchanged, interrupted, users, nextUniq, tokens, revoked>>

\* the user is deleted without the rotation of line 66
remove_user_revoke_skipped ==
    /\ op.pc = "rm_revoke"
    /\ op' = [op EXCEPT !.pc = "rm_delete"]
    /\ UNCHANGED <<otpVars, encVars, verVars, exchanged, interrupted, users, nextUniq, tokens, revoked>>

\* self.revoke_all_tokens_for_user(user)
remove_user_revoke ==
    /\ op.pc = "rm_revoke"
    /\ users' = set_uniquifier(users, op.user)
    /\ nextUniq' = nextUniq + 1
    /\ revoked' = revoked \cup ({users[op.user].fs_uniquifier} \cap tokens)
    /\ op' = [op EXCEPT !.pc = "rm_delete"]
    /\ UNCHANGED <<otpVars, encVars, verVars, exchanged, interrupted, tokens>>

\* self._datastore.delete_user(user)
remove_user_delete ==
    /\ op.pc = "rm_delete"
    /\ users' = delete_user(users, op.user)
    /\ op' = [op EXCEPT !.pc = "return", !.outcome = "None"]
    /\ UNCHANGED <<otpVars, encVars, verVars, exchanged, interrupted, nextUniq, tokens, revoked>>

\* ------------------------------------------- generate_new_token_pair
\* The caller presents a refresh token: one that was generated, as it is, altered
\* or expired, or a string that was never generated (which cannot verify).
generate_new_token_pair_call(q, state) ==
    /\ op.pc = "idle"
    /\ q \in tokens \/ state = "tampered"
    /\ op' = [Idle EXCEPT !.pc = "gp_parse", !.name = "generate_new_token_pair",
                          !.token = q, !.state = state, !.again = (q = exchanged),
                          !.before = users, !.beforeUniq = nextUniq]
    /\ UNCHANGED <<otpVars, encVars, verVars, exchanged, interrupted, users, nextUniq, tokens, revoked>>

\* parsed_refresh_token = self._token_parser.parse(refresh_token)
generate_new_token_pair_parse ==
    /\ op.pc = "gp_parse"
    /\ op' = IF parse_fails(op.state)
             THEN [op EXCEPT !.pc = "return", !.outcome = "TokenValidationError"]
             ELSE [op EXCEPT !.pc = "gp_owner", !.parsed = op.token]
    /\ UNCHANGED <<otpVars, encVars, verVars, exchanged, interrupted, users, nextUniq, tokens, revoked>>

\* user = self._get_refresh_token_owner(parsed_refresh_token):
\*   user = find_user(fs_uniquifier=...); if not user: raise Exception(...)
generate_new_token_pair_owner ==
    /\ op.pc = "gp_owner"
    /\ LET user == find_user_by_uniquifier(op.parsed) IN
          op' = IF user = None
                THEN [op EXCEPT !.pc = "return", !.outcome = "Exception"]
                ELSE [op EXCEPT !.pc = "gp_mint", !.user = user]
    /\ UNCHANGED <<otpVars, encVars, verVars, exchanged, interrupted, users, nextUniq, tokens, revoked>>

\* the exchange also rotates the owner's uniquifier (one-time refresh tokens)
generate_new_token_pair_mint_rotates ==
    /\ op.pc = "gp_mint"
    /\ nextUniq <= MaxUniquifiers
    /\ users' = set_uniquifier(users, op.user)
    /\ nextUniq' = nextUniq + 1
    /\ tokens' = tokens \cup {nextUniq}
    /\ revoked' = revoked \cup ({users[op.user].fs_uniquifier} \cap tokens)
    /\ exchanged' = op.token
    /\ op' = [op EXCEPT !.pc = "return", !.outcome = "ok", !.minted = TRUE]
    /\ UNCHANGED <<otpVars, encVars, verVars, interrupted>>

\* new_access_token = user.get_auth_token()
\* new_refresh_token = self._token_generator.generate_token(user.fs_uniquifier)
generate_new_token_pair_mint ==
    /\ op.pc = "gp_mint"
    /\ tokens' = tokens \cup {users[op.user].fs_uniquifier}
    /\ op' = [op EXCEPT !.pc = "return", !.outcome = "ok", !.minted = TRUE]
    /\ exchanged' = op.token
    /\ UNCHANGED <<otpVars, encVars, verVars, interrupted, users, nextUniq, revoked>>

\* ---------------------------------- revoke_all_tokens_for_all_users
\* User.objects: the users the loop will visit
revoke_all_tokens_for_all_users_call ==
    /\ op.pc = "idle"
    /\ LET present == {n \in Usernames : users[n].present} IN
          /\ nextUniq + Cardinality(present) - 1 <= MaxUniquifiers
          /\ op' = [Idle EXCEPT !.pc = "ra_loop",
                                !.name = "revoke_all_tokens_for_all_users",
                                !.before = users, !.beforeUniq = nextUniq,
                                !.todo = present, !.resumed = interrupted]
    /\ interrupted' = FALSE
    /\ UNCHANGED <<otpVars, encVars, verVars, exchanged, users, nextUniq, tokens, revoked>>

\* the loop ends after its first user
revoke_all_tokens_for_all_users_next_returns ==
    /\ op.pc = "ra_loop"
    /\ \E n \in op.todo :
          /\ users' = set_uniquifier(users, n)
          /\ nextUniq' = nextUniq + 1
          /\ revoked' = revoked \cup ({users[n].fs_uniquifier} \cap tokens)
          /\ op' = [op EXCEPT !.pc = "return", !.outcome = "None",
                              !.todo = @ \ {n}, !.done = @ \cup {n}]
    /\ UNCHANGED <<otpVars, encVars, verVars, exchanged, interrupted, tokens>>

\* for user in User.objects: self.revoke_all_tokens_for_user(user)
revoke_all_tokens_for_all_users_next ==
    /\ op.pc = "ra_loop"
    /\ \E n \in op.todo :
          /\ users' = set_uniquifier(users, n)
          /\ nextUniq' = nextUniq + 1
          /\ revoked' = revoked \cup ({users[n].fs_uniquifier} \cap tokens)
          /\ op' = [op EXCEPT !.todo = @ \ {n}, !.done = @ \cup {n}]
    /\ UNCHANGED <<otpVars, encVars, verVars, exchanged, interrupted, tokens>>

\* set_uniquifier raises for the user the loop has reached: nothing catches it
revoke_all_tokens_for_all_users_fails ==
    /\ op.pc = "ra_loop"
    /\ op.todo # {}
    /\ op' = [op EXCEPT !.pc = "return", !.outcome = "StorageError"]
    /\ interrupted' = (op.done # {})
    /\ UNCHANGED <<otpVars, encVars, verVars, exchanged, users, nextUniq, tokens, revoked>>

\* the loop has visited every user
revoke_all_tokens_for_all_users_done ==
    /\ op.pc = "ra_loop"
    /\ op.todo = {}
    /\ op' = [op EXCEPT !.pc = "return", !.outcome = "None"]
    /\ UNCHANGED <<otpVars, encVars, verVars, exchanged, interrupted, users, nextUniq, tokens, revoked>>

\* the call in progress returns (or its exception reaches the caller)
facade_return ==
    /\ op.pc = "return"
    /\ op' = Idle
    /\ UNCHANGED <<otpVars, encVars, verVars, exchanged, interrupted, users, nextUniq, tokens, revoked>>

\* ============================== the repository encryptor and the events
\* _get_secret_from_credentials: f"{username}:{password}"
get_secret_from_credentials(username, password) ==
    ToString(username) \o ":" \o ToString(password)

\* ILockableEncryptor.reset_key: the key is discarded and the encryptor locked; the
\* next unlock creates the new key under the secret it is given
reset_key(e) == [locked |-> TRUE, key |-> e.key + 1, secret |-> NoSecret]

\* ILockableEncryptor.unlock(secret) fails when a key exists under another secret
unlock_fails(e, secret) == e.secret \notin {NoSecret, secret}

unlock(e, secret) == [e EXCEPT !.locked = FALSE, !.secret = secret]

\* ------------------------------------- handle_successful_registration
handle_successful_registration_call(username, password) ==
    /\ reg.pc = "idle"
    /\ enc.key < MaxResets
    /\ reg' = [RegIdle EXCEPT !.pc = "publish",
                              !.name = "handle_successful_registration",
                              !.username = username, !.password = password,
                              !.before = enc]
    /\ UNCHANGED <<otpVars, dirVars, verVars, enc, roles>>

\* a publish that raises is caught and the next step runs
reset_island_data_publish_swallows(outcome) ==
    /\ reg.pc = "publish"
    /\ LET log == IF outcome = "raised" THEN reg.log
                  ELSE Append(reg.log, ResetEvents[Len(reg.log) + 1])
           last == Len(reg.log) + 1 = Len(ResetEvents) IN
          reg' = [reg EXCEPT !.log = log,
                             !.subscriber_failed = @ \/ outcome = "subscriber_failed",
                             !.pc = IF last \/ outcome = "raised"
                                    THEN "reset_key" ELSE "publish"]
    /\ UNCHANGED <<otpVars, dirVars, verVars, enc, roles>>

\* _reset_island_data: self._island_event_queue.publish(...), three times in a row;
\* a publish that raises ends the call, nothing catches it
reset_island_data_publish(outcome) ==
    /\ reg.pc = "publish"
    /\ reg' = IF outcome = "raised"
              THEN [reg EXCEPT !.pc = "return", !.outcome = "PublishError"]
              ELSE [reg EXCEPT
                      !.log = Append(@, ResetEvents[Len(reg.log) + 1]),
                      !.subscriber_failed = @ \/ outcome = "subscriber_failed",
                      !.pc = IF Len(reg.log) + 1 = Len(ResetEvents)
                             THEN "reset_key" ELSE "publish"]
    /\ UNCHANGED <<otpVars, dirVars, verVars, enc, roles>>

\* lines 171 and 172 in the other order: unlock, then reset_key
reset_repository_encryptor_reset_key_after_unlock ==
    /\ reg.pc = "reset_key"
    /\ LET secret == get_secret_from_credentials(reg.username, reg.password) IN
          /\ ~unlock_fails(enc, secret)
          /\ enc' = reset_key(unlock(enc, secret))
          /\ reg' = [reg EXCEPT !.pc = "return", !.outcome = "None",
                                !.log = @ \o <<"unlock " \o secret, "reset_key">>]
    /\ UNCHANGED <<otpVars, dirVars, verVars, roles>>

\* _reset_repository_encryptor: self._repository_encryptor.reset_key()
reset_repository_encryptor_reset_key ==
    /\ reg.pc = "reset_key"
    /\ enc' = reset_key(enc)
    /\ reg' = [reg EXCEPT !.pc = "unlock", !.log = Append(@, "reset_key")]
    /\ UNCHANGED <<otpVars, dirVars, verVars, roles>>

\* _reset_repository_encryptor: secret = _get_secret_from_credentials(...)
\* self._repository_encryptor.unlock(secret.encode())
reset_repository_encryptor_unlock ==
    /\ reg.pc = "unlock"
    /\ LET secret == get_secret_from_credentials(reg.username, reg.password) IN
          IF unlock_fails(enc, secret)
          THEN /\ reg' = [reg EXCEPT !.pc = "return", !.outcome = "UnlockError"]
               /\ enc' = enc
          ELSE /\ enc' = unlock(enc, secret)
               /\ reg' = [reg EXCEPT !.pc = "return", !.outcome = "None",
                                     !.log = Append(@, "unlock " \o secret)]
    /\ UNCHANGED <<otpVars, dirVars, verVars, roles>>

\* ------------------------------------------- handle_successful_login
handle_successful_login_call(username, password) ==
    /\ reg.pc = "idle"
    /\ reg' = [RegIdle EXCEPT !.pc = "login_unlock", !.name = "handle_successful_login",
                              !.username = username, !.password = password,
                              !.before = enc]
    /\ UNCHANGED <<otpVars, dirVars, verVars, enc, roles>>

\* login resets the key before it unlocks, as registration does
unlock_repository_encryptor_resets ==
    /\ reg.pc = "login_unlock"
    /\ enc.key < MaxResets
    /\ LET secret == get_secret_from_credentials(reg.username, reg.password) IN
          /\ enc' = unlock(reset_key(enc), secret)
          /\ reg' = [reg EXCEPT !.pc = "return", !.outcome = "None",
                                !.log = Append(@, "unlock " \o secret)]
    /\ UNCHANGED <<otpVars, dirVars, verVars, roles>>

\* _unlock_repository_encryptor: secret = _get_secret_from_credentials(...)
\* self._repository_encryptor.unlock(secret.encode())
unlock_repository_encryptor ==
    /\ reg.pc = "login_unlock"
    /\ LET secret == get_secret_from_credentials(reg.username, reg.password) IN
          IF unlock_fails(enc, secret)
          THEN /\ reg' = [reg EXCEPT !.pc = "return", !.outcome = "UnlockError"]
               /\ enc' = enc
          ELSE /\ enc' = unlock(enc, secret)
               /\ reg' = [reg EXCEPT !.pc = "return", !.outcome = "None",
                                     !.log = Append(@, "unlock " \o secret)]
    /\ UNCHANGED <<otpVars, dirVars, verVars, roles>>

\* ------------------------------------------------ needs_registration
\* find_or_create_role(name=AccountRole.ISLAND_INTERFACE.name), then
\* return not self._datastore.find_user(roles=[island_api_user_role])
needs_registration ==
    /\ reg.pc = "idle"
    /\ roles' = roles \cup {"ISLAND_INTERFACE"}
    /\ reg' = [RegIdle EXCEPT !.pc = "return", !.name = "needs_registration",
                 !.before = enc,
                 !.outcome = IF \E n \in Usernames : users[n].present
                             THEN "False" ELSE "True"]
    /\ UNCHANGED <<otpVars, dirVars, verVars, enc>>

\* the call in progress returns (or its exception reaches the caller)
encryptor_return ==
    /\ reg.pc = "return"
    /\ reg' = RegIdle
    /\ UNCHANGED <<otpVars, dirVars, verVars, enc, roles>>

\* ================================================ VersionUpdateService
\* The characters a "newer_version" string of the server's reply is made of: a digit,
\* the separator, and a character that is neither.
VersionChars == {"1", ".", "x"}

VersionStrings ==
    UNION {[1..n -> VersionChars] : n \in 0..MaxVersionLen}

\* what the version server answers: nothing (the request fails), or a JSON body
\* whose "newer_version" is missing, false or a string
Replies ==
    {[kind |-> "RequestException"], NoneValue, FalseValue}
        \cup {StrValue(text) : text \in VersionStrings}

\* str.split("."): the parts between the separators
RECURSIVE split(_)
split(text) ==
    IF \A i \in 1..Len(text) : text[i] # "."
    THEN <<text>>
    ELSE LET i == CHOOSE j \in 1..Len(text) :
                     text[j] = "." /\ \A k \in 1..(j - 1) : text[k] # "."
         IN  <<SubSeq(text, 1, i - 1)>> \o split(SubSeq(text, i + 1, Len(text)))

\* int(x) raises ValueError unless x is a non-empty string of digits
int_fails(part) == part = <<>> \/ \E i \in 1..Len(part) : part[i] # "1"

\* [int(x) for x in res.split(".")] raises ValueError if version is invalid format
invalid_format(text) ==
    LET parts == split(text) IN \E i \in 1..Len(parts) : int_fails(parts[i])

\* the check runs whatever the class attribute holds
get_newer_version_call_always_checks ==
    /\ ver.pc = "idle"
    /\ queries < MaxQueries
    /\ ver' = [VerIdle EXCEPT !.cached = newer_version, !.pc = "request"]
    /\ UNCHANGED <<otpVars, dirVars, encVars, newer_version, queries>>

\* get_newer_version: if VersionUpdateService.newer_version is None: ...
get_newer_version_call ==
    /\ ver.pc = "idle"
    /\ newer_version = NoneValue => queries < MaxQueries
    /\ ver' = [VerIdle EXCEPT
                 !.cached = newer_version,
                 !.pc = IF newer_version = NoneValue THEN "request" ELSE "return",
                 !.outcome = newer_version]
    /\ UNCHANGED <<otpVars, dirVars, encVars, newer_version, queries>>

\* _check_new_version: reply = requests.get(url, timeout=7); a RequestException
\* is raised again as VersionServerConnectionError, which get_newer_version
\* catches and logs before it returns the class attribute
check_new_version_request(reply) ==
    /\ ver.pc = "request"
    /\ queries' = queries + 1
    /\ ver' = IF reply.kind = "RequestException"
              THEN [ver EXCEPT !.pc = "return", !.queried = TRUE,
                               !.caught = "VersionServerConnectionError",
                               !.outcome = newer_version]
              ELSE [ver EXCEPT !.pc = "parse", !.queried = TRUE, !.reply = reply]
    /\ UNCHANGED <<otpVars, dirVars, encVars, newer_version>>

\* res = reply.json().get("newer_version", None)
\* if res is False: return res
\* [int(x) for x in res.split(".")]; return res
\* and, back in get_newer_version, the assignment to the class attribute
check_new_version_parse ==
    /\ ver.pc = "parse"
    /\ LET res == ver.reply IN
          IF res = FalseValue
          THEN /\ newer_version' = FalseValue
               /\ ver' = [ver EXCEPT !.pc = "return", !.outcome = FalseValue]
          ELSE IF res = NoneValue
          THEN /\ newer_version' = newer_version
               /\ ver' = [ver EXCEPT !.pc = "return", !.raised = "AttributeError"]
          ELSE IF invalid_format(res.text)
          THEN /\ newer_version' = newer_version
               /\ ver' = [ver EXCEPT !.pc = "return", !.raised = "ValueError"]
          ELSE /\ newer_version' = res
               /\ ver' = [ver EXCEPT !.pc = "return", !.outcome = res]
    /\ UNCHANGED <<otpVars, dirVars, encVars, queries>>

\* the call returns (or its exception reaches the caller)
version_return ==
    /\ ver.pc = "return"
    /\ ver' = VerIdle
    /\ UNCHANGED <<otpVars, dirVars, encVars, newer_version, queries>>

\* ------------------------------------------------------------- Next
NextOTP ==
    \/ Tick
    \/ generate_otp_pick
    \/ generate_otp_insert
    \/ \E t \in Threads, o \in Values : authorize_otp_call(t, o)
    \/ \E t \in Threads : authorize_otp_acquire(t)
    \/ \E t \in Threads : authorize_otp_read_used(t)
    \/ \E t \in Threads : authorize_otp_set_used(t)
    \/ \E t \in Threads : authorize_otp_decide(t)
    \/ \E t \in Threads : authorize_otp_except(t)
    \/ \E t \in Threads : authorize_otp_release(t)

SpecOTP == Init /\ [][NextOTP]_vars

\* time.monotonic() after a pause longer than the time to live of any OTP
Pause ==
    /\ now + OTP_EXPIRATION_TIME < MaxTime
    /\ now' = MaxTime
    /\ UNCHANGED <<otps, lock, pc, arg, used_local, exc, result, gen,
                   ord, at, reads, retTrue, dirVars, encVars, verVars>>

\* The OTP operations with a repository that can fail, under fair scheduling: a
\* thread inside the with block keeps running, and a thread that waits for a lock
\* which is free again and again gets it. One OTP is generated in a behaviour; the
\* other values a thread presents are unknown to the repository.
NextOTPFaults ==
    \/ Pause
    \/ generate_otp_pick /\ \A o \in OTPs : ~known(o)
    \/ generate_otp_insert
    \/ \E t \in Threads, o \in Values : authorize_otp_call(t, o)
    \/ \E t \in Threads : authorize_otp_acquire(t)
    \/ \E t \in Threads : authorize_otp_read_used(t)
    \/ \E t \in Threads : authorize_otp_set_used(t)
    \/ \E t \in Threads : authorize_otp_decide(t)
    \/ \E t \in Threads : authorize_otp_except(t)
    \/ \E t \in Threads : authorize_otp_release(t)
    \/ \E t \in Threads : authorize_otp_store_fails(t)

InBlock(t) ==
    \/ authorize_otp_read_used(t)
    \/ authorize_otp_set_used(t)
    \/ authorize_otp_decide(t)
    \/ authorize_otp_store_fails(t)
    \/ authorize_otp_except(t)
    \/ authorize_otp_release(t)

FairSpecOTP ==
    /\ Init
    /\ [][NextOTPFaults]_vars
    /\ \A t \in Threads : SF_vars(authorize_otp_acquire(t)) /\ WF_vars(InBlock(t))

NextDirectory ==
    \/ \E n \in Usernames : create_user(n)
    \/ \E n \in Usernames : generate_refresh_token(n)
    \/ \E n \in Usernames : revoke_all_tokens_for_user(n)
    \/ \E n \in Usernames : remove_user_call(n)
    \/ remove_user_find
    \/ remove_user_revoke
    \/ remove_user_delete
    \/ \E q \in Uniquifiers, state \in TokenStates : generate_new_token_pair_call(q, state)
    \/ generate_new_token_pair_parse
    \/ generate_new_token_pair_owner
    \/ generate_new_token_pair_mint
    \/ revoke_all_tokens_for_all_users_call
    \/ revoke_all_tokens_for_all_users_next
    \/ revoke_all_tokens_for_all_users_fails
    \/ revoke_all_tokens_for_all_users_done
    \/ facade_return

SpecDirectory == Init /\ [][NextDirectory]_vars

NextEncryptor ==
    \/ \E username \in Usernames, password \in Passwords :
          handle_successful_registration_call(username, password)
    \/ \E outcome \in PublishOutcomes : reset_island_data_publish(outcome)
    \/ reset_repository_encryptor_reset_key
    \/ reset_repository_encryptor_unlock
    \/ \E username \in Usernames, password \in Passwords :
          handle_successful_login_call(username, password)
    \/ unlock_repository_encryptor
    \/ needs_registration
    \/ encryptor_return

SpecEncryptor == Init /\ [][NextEncryptor]_vars

NextVersion ==
    \/ get_newer_version_call
    \/ \E reply \in Replies : check_new_version_request(reply)
    \/ check_new_version_parse
    \/ version_return

SpecVersion == Init /\ [][NextVersion]_vars

\* Every operation of the facade. The three groups of operations share no
\* variable, so a behaviour that mixes them is a product of behaviours of the
\* groups; a behaviour of SpecFacade stays within the group of its first step, and
\* its directory operations draw FrameUniquifiers uniquifiers at most.
FrameUniquifiers == NumUsers + 1

NextFacade ==
    \/ InitDirectory /\ InitEncryptor /\ NextOTP
    \/ InitOTP /\ InitEncryptor /\ NextDirectory /\ nextUniq' <= FrameUniquifiers + 1
    \/ InitOTP /\ InitDirectory /\ NextEncryptor

SpecFacade == Init /\ [][NextFacade]_vars

Next == NextOTP \/ NextDirectory \/ NextEncryptor \/ NextVersion

Spec == Init /\ [][Next]_vars

\* ===================================================== properties, OTP
Decided(t) == pc[t] = "exit"

Found(t) == ord[t] # NoOrd

InSection(t) == pc[t] \in {"is_used", "set_used", "decide", "except", "exit"}

Unexpired(o) == ~(get_expiration(o) < now)

\* Calls of authorize_otp(o) that found o's record and have returned.
returned(o) == reads[o] - Cardinality({t \in Threads : arg[t] = o /\ Found(t)})

\* Calls of authorize_otp(o) that hold the result True and are about to return it.
decidedTrue(o) ==
    Cardinality({t \in Threads : Decided(t) /\ arg[t] = o /\ result[t] = "True"})

\* C1: while a generated OTP o is unexpired, of the calls authorize_otp(o) that
\* have returned, however their steps were interleaved, exactly one returned True
\* and every other one returned False.
C1_ExactlyOneConcurrentCallWins ==
    /\ \A o \in OTPs :
          (known(o) /\ Unexpired(o) /\ returned(o) >= 1) => retTrue[o] = 1
    /\ \A t \in Threads :
          (Decided(t) /\ Found(t)) => result[t] \in {"True", "False"}

\* C1 witness: NumThreads calls with the same unexpired o are in progress at once;
\* the one that got the lock first holds True and all the others wait for the lock.
C1_Witness ==
    \E t \in Threads :
        /\ Decided(t) /\ Found(t)
        /\ ord[t] = 0
        /\ result[t] = "True"
        /\ Unexpired(arg[t])
        /\ \A u \in Threads \ {t} : pc[u] = "lock" /\ arg[u] = arg[t]

\* C2: the first call authorize_otp(o) to find o's record, deciding before o's
\* expiration, returns True; every later call with o returns False.
C2_FirstCallTrueLaterFalse ==
    \A t \in Threads :
        (Decided(t) /\ Found(t)) =>
            /\ (ord[t] = 0 /\ at[t] < get_expiration(arg[t])) => result[t] = "True"
            /\ ord[t] > 0 => result[t] = "False"

\* C2 witness: the first call returned True, and a later call, made after the
\* expiration, holds False.
C2_Witness ==
    \E t \in Threads :
        /\ Decided(t) /\ Found(t)
        /\ ord[t] > 0
        /\ at[t] > get_expiration(arg[t])
        /\ result[t] = "False"
        /\ retTrue[arg[t]] = 1

\* C3: for every OTP value, at most one authorize_otp call ever gets True.
C3_AtMostOneTrue ==
    \A o \in Values : retTrue[o] + decidedTrue(o) <= 1

\* C3 witness: one call with o returned True and another call with o holds False.
C3_Witness ==
    \E t \in Threads :
        /\ Decided(t) /\ Found(t)
        /\ result[t] = "False"
        /\ retTrue[arg[t]] = 1
        /\ decidedTrue(arg[t]) = 0

\* C4 as claimed: a call deciding at now >= expires_at returns False, also at
\* now = expires_at.
C4_ExpiredAtBoundary ==
    \A t \in Threads :
        (Decided(t) /\ Found(t) /\ at[t] >= get_expiration(arg[t])) => result[t] = "False"

\* C4 amended: a call deciding at now > expires_at returns False even when it is
\* the first call; the first call deciding exactly at now = expires_at returns True.
C4_ExpiredAfterBoundary ==
    \A t \in Threads :
        (Decided(t) /\ Found(t)) =>
            /\ at[t] > get_expiration(arg[t]) => result[t] = "False"
            /\ (ord[t] = 0 /\ at[t] = get_expiration(arg[t])) => result[t] = "True"

\* C4 witness: a first call deciding after the expiration holds False.
C4_Witness ==
    \E t \in Threads :
        /\ Decided(t) /\ Found(t)
        /\ ord[t] = 0
        /\ at[t] > get_expiration(arg[t])
        /\ result[t] = "False"

\* C5: a call authorize_otp(o) that finds no record of o returns False, raises
\* nothing to its caller, and none of its steps changes the OTP repository.
C5_UnknownOtpIsFalse ==
    /\ [](\A t \in Threads : (Decided(t) /\ ~Found(t)) => result[t] = "False")
    /\ [][\A t \in Threads :
            (pc'[t] # pc[t] /\ ~Found(t) /\ (pc[t] = "is_used" => ~known(arg[t])))
                => otps' = otps]_vars

\* C5 witness: a call with a value the repository does not know holds False, and
\* the repository still has no record of the value.
C5_Witness ==
    \E t \in Threads :
        /\ Decided(t) /\ ~Found(t)
        /\ arg[t] = Unrecognized
        /\ ~known(arg[t])
        /\ result[t] = "False"

\* C8: at most one thread is inside the section of authorize_otp, whatever values
\* the callers pass, the thread inside holds the lock, and the lookup, the set_used
\* write and the expiry check are steps taken with the lock held.
C8_OneThreadInSection ==
    /\ [](Cardinality({t \in Threads : InSection(t)}) <= 1)
    /\ [](\A t \in Threads : InSection(t) => lock = t)
    /\ [][\A t \in Threads :
            (pc'[t] # pc[t] /\ pc[t] \in {"is_used", "set_used", "decide"})
                => (lock = t /\ lock' = t)]_vars

\* C8 witness: one thread is between the set_used write and the expiry check while
\* a call with a different value waits for the lock.
C8_Witness ==
    \E t, u \in Threads :
        /\ pc[t] = "decide"
        /\ pc[u] = "lock"
        /\ arg[u] # arg[t]

\* C9: a record's used flag, once true, stays true.
C9_UsedIsMonotonic ==
    [][\A o \in Values :
          (known(o) /\ otp_is_used(o)) => (known(o)' /\ otp_is_used(o)')]_vars

\* C9 witness: a record is marked used and two calls with its value have returned.
C9_Witness ==
    \E o \in OTPs :
        /\ known(o) /\ otp_is_used(o)
        /\ returned(o) = 2

\* C12: generate_otp computes the expiration as the clock it reads plus
\* OTP_EXPIRATION_TIME and writes the record (that expiration, used = false) in the
\* step that ends the call; a record no call has presented yet is unused and
\* expires OTP_EXPIRATION_TIME after a time that has been read.
C12_GeneratedRecord ==
    /\ [][/\ (gen.pc = "idle" /\ gen'.pc = "insert")
              => gen'.expiration = now + OTP_EXPIRATION_TIME
          /\ (gen.pc = "insert" /\ gen'.pc = "idle")
              => otps'[gen.otp] = [present |-> TRUE, expiration |-> gen.expiration,
                                   used |-> FALSE]]_vars
    /\ [](\A o \in OTPs :
            (known(o) /\ reads[o] = 0) =>
                /\ ~otp_is_used(o)
                /\ get_expiration(o) - OTP_EXPIRATION_TIME \in 0..now)

\* C12 witness: generate_otp has returned a value after the clock had advanced, and
\* the value's record is unused and expires OTP_EXPIRATION_TIME after the time read.
C12_Witness ==
    \E o \in OTPs :
        /\ gen.pc = "idle"
        /\ known(o) /\ ~otp_is_used(o) /\ reads[o] = 0
        /\ now > 0
        /\ get_expiration(o) = now + OTP_EXPIRATION_TIME

\* C13: a call authorize_otp(o) that found o's record has marked it used before it
\* checks the expiry and decides, and the record is used when the call ends,
\* whatever the call returns.
C13_PresentedIsUsed ==
    \A t \in Threads :
        (Found(t) /\ pc[t] \in {"decide", "exit"}) =>
            (known(arg[t]) /\ otp_is_used(arg[t]))

\* C13 witness: the first call with o, made after o's expiration, holds False and
\* o is marked used.
C13_Witness ==
    \E t \in Threads :
        /\ Decided(t) /\ Found(t)
        /\ ord[t] = 0
        /\ ~used_local[t]
        /\ at[t] > get_expiration(arg[t])
        /\ result[t] = "False"
        /\ otp_is_used(arg[t])

\* C15: whichever way a call leaves the with block (True, False, the unknown-OTP
\* False, or a repository failure that reaches the caller as it was raised), the
\* lock is free once no call is inside the block, and under fair scheduling every
\* call that waits for the lock gets it and returns.
C15_LockAlwaysReleased ==
    /\ []((\A t \in Threads : ~InSection(t)) => lock = NoThread)
    /\ [](\A t \in Threads :
            (Decided(t) /\ exc[t] = "StorageError") => result[t] = "StorageError")
    /\ [][\A t \in Threads :
              (pc[t] = "lock" /\ pc'[t] # "lock") => (lock = NoThread /\ lock' = t)]_vars
    /\ \A t \in Threads : []<>(pc[t] = "idle")

\* C15 witness: a call whose repository failed has left the block, the lock is free,
\* and the other thread, which was waiting, holds it next.
C15_Witness ==
    \E t, u \in Threads :
        /\ t # u
        /\ pc[t] = "idle"
        /\ pc[u] = "is_used"
        /\ lock = u
        /\ \E o \in OTPs : known(o) /\ reads[o] = 1 /\ ~otp_is_used(o)

\* =========================================== properties, user directory
Returning(name) == op.pc = "return" /\ op.name = name

\* C6: generate_new_token_pair with a refresh token whose owner's uniquifier was
\* rotated after the token was issued fails with a TokenValidationError and mints
\* no token.
C6_RevokedTokenFailsValidation ==
    (Returning("generate_new_token_pair") /\ op.token \in revoked)
        => (op.outcome = "TokenValidationError" /\ ~op.minted)

\* C7: generate_new_token_pair fails when the token does not parse and when its
\* uniquifier resolves to no user, in both cases with a TokenValidationError and no
\* other error, and then mints no token.
C7_RefreshFailsOnlyWithTokenValidationError ==
    Returning("generate_new_token_pair") =>
        /\ (parse_fails(op.state) \/ find_user_by_uniquifier(op.token) = None)
              => op.outcome # "ok"
        /\ op.outcome # "ok" => (op.outcome = "TokenValidationError" /\ ~op.minted)

\* C10: remove_user(username) with no such user in the directory returns without
\* raising, draws no new uniquifier and leaves the directory as it was.
C10_RemoveAbsentUserIsNoOp ==
    (Returning("remove_user") /\ ~op.before[op.username].present) =>
        /\ op.outcome = "None"
        /\ users = op.before
        /\ nextUniq = op.beforeUniq
        /\ op.user = None

\* C10 witness: remove_user returns for a username the directory does not hold
\* while it holds another user.
C10_Witness ==
    /\ Returning("remove_user")
    /\ ~op.before[op.username].present
    /\ \E n \in Usernames : users[n].present
    /\ op.outcome = "None"

\* C14: remove_user of an existing user rotates the user's uniquifier before it
\* deletes the record: at the delete step the record is still there with a
\* uniquifier other than the one it had at the call, the record is never gone
\* while the rotation is still to do, and at the return the user is absent.
C14_RotateThenDelete ==
    (op.name = "remove_user" /\ op.user # None) =>
        /\ op.pc = "rm_delete" =>
              /\ users[op.user].present
              /\ users[op.user].fs_uniquifier # op.before[op.user].fs_uniquifier
        /\ ~users[op.user].present =>
              /\ op.pc = "return"
              /\ nextUniq = op.beforeUniq + 1
        /\ op.pc = "return" => ~users[op.username].present

\* C14 witness: remove_user of an existing user whose refresh token was issued
\* before returns: the user is gone and the token is revoked.
C14_Witness ==
    /\ Returning("remove_user")
    /\ op.user # None
    /\ op.before[op.user].present
    /\ op.before[op.user].fs_uniquifier \in revoked
    /\ ~users[op.user].present

\* C16: generate_new_token_pair changes nothing in the user directory; after a
\* successful exchange the presented token still resolves to its owner, and an
\* exchange of a verified token whose uniquifier still resolves always succeeds.
C16_ExchangeKeepsTokenValid ==
    Returning("generate_new_token_pair") =>
        /\ users = op.before
        /\ nextUniq = op.beforeUniq
        /\ op.outcome = "ok" =>
              /\ op.token \in tokens
              /\ op.token \notin revoked
              /\ find_user_by_uniquifier(op.token) = op.user
              /\ op.user # None
        /\ (op.state = "valid" /\ find_user_by_uniquifier(op.token) # None) =>
              op.outcome = "ok"

\* C16 witness: a refresh token that was exchanged before is exchanged again, and
\* the call succeeds.
C16_Witness ==
    /\ Returning("generate_new_token_pair")
    /\ op.again
    /\ op.outcome = "ok"
    /\ op.minted

\* C17: a revoke_all_tokens_for_all_users that completes has rotated every user, and
\* no token issued before resolves to a user; one that fails passes the failure on,
\* has rotated the users it visited before and left the others as they were.
C17_RevokeAllNoRollback ==
    Returning("revoke_all_tokens_for_all_users") =>
        LET present == {n \in Usernames : op.before[n].present}
            rotated(n) == /\ users[n].present
                          /\ users[n].fs_uniquifier # op.before[n].fs_uniquifier
                          /\ users[n].fs_uniquifier >= op.beforeUniq
        IN  /\ op.outcome \in {"None", "StorageError"}
            /\ op.done \cup op.todo = present
            /\ op.done \cap op.todo = {}
            /\ \A n \in op.done : rotated(n)
            /\ \A n \in op.todo : users[n] = op.before[n]
            /\ op.outcome = "None" =>
                  /\ op.todo = {}
                  /\ \A q \in tokens : find_user_by_uniquifier(q) = None
            /\ op.outcome = "StorageError" => op.todo # {}

\* C17 witness: a run that failed after it had rotated one user and before it rotated
\* another was followed by a run that completed.
C17_Witness ==
    /\ Returning("revoke_all_tokens_for_all_users")
    /\ op.outcome = "None"
    /\ op.resumed
    /\ Cardinality(op.done) >= 2
    /\ tokens # {}

\* =========================== properties, encryptor and reset events
Registering == reg.name = "handle_successful_registration"

LoggingIn == reg.name = "handle_successful_login"

Secret == get_secret_from_credentials(reg.username, reg.password)

\* what a registration does, in the order of the code
Expected == ResetEvents \o <<"reset_key", "unlock " \o Secret>>

UnlockedUnderNewKey ==
    /\ ~enc.locked
    /\ enc.key = reg.before.key + 1
    /\ enc.secret = Secret

\* C11: what handle_successful_registration has done so far is always a prefix of:
\* publish CLEAR_SIMULATION_DATA, publish RESET_AGENT_CONFIGURATION, publish
\* SET_ISLAND_MODE with mode UNSET, reset_key, unlock(secret of the credentials);
\* so reset_key never follows unlock, and when the call returns all five are done and
\* the encryptor is unlocked under the new key.
C11_RegistrationOrder ==
    Registering =>
        /\ Len(reg.log) <= Len(Expected)
        /\ reg.log = SubSeq(Expected, 1, Len(reg.log))
        /\ reg.pc = "unlock" =>
              (enc.locked /\ enc.key = reg.before.key + 1 /\ Len(reg.log) = 4)
        /\ (reg.pc = "return" /\ reg.outcome = "None") =>
              (reg.log = Expected /\ UnlockedUnderNewKey)

\* C11 witness: a registration with other credentials than the ones the old key
\* was under returns: the key is new and the encryptor unlocked with the new secret.
C11_Witness ==
    /\ Registering
    /\ reg.pc = "return"
    /\ reg.outcome = "None"
    /\ reg.before.key = 1
    /\ ~reg.before.locked
    /\ reg.before.secret # Secret
    /\ UnlockedUnderNewKey

\* C18 (as stated): whatever fails while the reset events are published, a subscriber
\* or the publish call itself, the registration still publishes all three events and
\* resets and unlocks the encryptor.
C18_RegistrationIgnoresPublishFailures ==
    (Registering /\ reg.pc = "return") =>
        (reg.log = Expected /\ UnlockedUnderNewKey)

\* C18 (amended): a subscriber failure that publish does not raise changes nothing:
\* the registration returns with all five steps done. A publish that raises ends the
\* registration with that failure: the events published before stay published, no
\* later event is published and the encryptor is left as it was.
C18_PublishFailureEndsRegistration ==
    (Registering /\ reg.pc = "return") =>
        /\ reg.outcome \in {"None", "PublishError"}
        /\ reg.outcome = "None" => (reg.log = Expected /\ UnlockedUnderNewKey)
        /\ reg.outcome = "PublishError" =>
              /\ Len(reg.log) < Len(ResetEvents)
              /\ reg.log = SubSeq(ResetEvents, 1, Len(reg.log))
              /\ enc = reg.before

\* C18 witness: the first event had a failing subscriber, the second was published,
\* the third publish raised: the registration ends with the encryptor untouched.
C18_Witness ==
    /\ Registering
    /\ reg.pc = "return"
    /\ reg.outcome = "PublishError"
    /\ reg.subscriber_failed
    /\ Len(reg.log) = 2
    /\ enc = reg.before

\* C19: the key changes only in the reset_key step of a registration, the lock state
\* only in a step of a registration or a login, and no step of any other operation
\* changes the encryptor; a login keeps the key and unlocks with the secret a
\* registration derives from the same credentials, so after that registration it
\* succeeds.
C19_OnlyRegistrationAndLoginTouchEncryptor ==
    /\ [][/\ enc'.key # enc.key => (Registering /\ reg.pc = "reset_key")
          /\ enc' # enc =>
                \/ Registering /\ reg.pc \in {"reset_key", "unlock"}
                \/ LoggingIn /\ reg.pc = "login_unlock"
          /\ (LoggingIn /\ enc' # enc) => enc' = unlock(enc, Secret)]_vars
    /\ []((LoggingIn /\ reg.pc = "return") =>
            /\ enc.key = reg.before.key
            /\ reg.before.secret = Secret =>
                  (reg.outcome = "None" /\ ~enc.locked /\ enc.secret = Secret)
            /\ reg.outcome = "None" => reg.log = <<Expected[Len(Expected)]>>)

\* C19 witness: a login with the credentials of the last registration returns: the
\* encryptor is unlocked under the key that registration made.
C19_Witness ==
    /\ LoggingIn
    /\ reg.pc = "return"
    /\ reg.outcome = "None"
    /\ reg.before.key = 1
    /\ reg.before.secret = Secret
    /\ enc.key = 1
    /\ ~enc.locked

\* ================================= properties, VersionUpdateService
\* C20: the version server is queried only while the class attribute is None; once
\* it holds a result (a version string or False) it never changes and every call
\* returns it without a query; a call whose request fails with
\* VersionServerConnectionError returns None without raising and leaves the
\* attribute None, so that the next call queries again.
C20_CheckOnlyUntilCached ==
    /\ [][/\ queries' # queries => newer_version = NoneValue
          /\ newer_version # NoneValue => newer_version' = newer_version
          /\ (ver.pc = "idle" /\ ver'.pc # "idle" /\ newer_version = NoneValue)
                => ver'.pc = "request"]_vars
    /\ [](ver.pc = "return" =>
            /\ ver.cached # NoneValue =>
                  /\ ~ver.queried
                  /\ ver.raised = "none"
                  /\ ver.outcome = ver.cached
                  /\ newer_version = ver.cached
            /\ ver.caught = "VersionServerConnectionError" =>
                  /\ ver.raised = "none"
                  /\ ver.outcome = NoneValue
                  /\ newer_version = NoneValue
            /\ (ver.queried /\ ver.raised = "none" /\ ver.caught = "none") =>
                  /\ ver.outcome # NoneValue
                  /\ newer_version = ver.outcome)

\* C20 witness: after a request that failed and one that brought a dotted version,
\* a call returns that version without a query.
C20_Witness ==
    /\ ver.pc = "return"
    /\ queries = 2
    /\ ~ver.queried
    /\ ver.cached = StrValue(<<"1", ".", "1">>)
    /\ ver.outcome = ver.cached

====
